---- MODULE Spec2Model ----
(***************************************************************************)
(* Model of the IMC Prosperity 2 trading engine of round_3.py: one call of *)
(* Trader.run per tick computes, for AMETHYSTS (fixed fair value market    *)
(* making), STARFRUIT (linear regression market making), ORCHIDS (OTC      *)
(* arbitrage) and GIFT_BASKET (basket trading), the orders and the         *)
(* conversion request, and carries the rolling window of STARFRUIT         *)
(* mid-VWAPs to the next tick.                                             *)
(*                                                                         *)
(* Python floats are modelled as exact rationals [n, d] in lowest terms    *)
(* with d > 0; prices and quantities of the order book are integers.       *)
(***************************************************************************)
EXTENDS Integers, Sequences, FiniteSets, TLC

VARIABLES
    timestamp,   \* state.timestamp of the current tick
    position,    \* the host's true filled position of every traded product
    data,        \* Trader.data["STARFRUIT"]: the in-memory rolling window
    traderData,  \* the carried-state blob the host holds for the next call
    state,       \* the TradingState handed to the most recent call of run
    out,         \* what the most recent call of run returned (or raised)
    prev,        \* what the call before it returned on the same TradingState
    objs,        \* the strategy objects of the most recent call of run
    calls,       \* number of calls of run with the current TradingState
    focus,       \* the product whose market is active in this session
    pc           \* "idle", "ran", "failed"; the step reached, for units

vars == <<timestamp, position, data, traderData, state, out, prev, objs,
          calls, focus, pc>>

----------------------------------------------------------------------------
(* Bounds of the model *)

MaxTick == 2

MaxCalls == 2

MaxHist == 4

----------------------------------------------------------------------------
(* Exact arithmetic standing for Python float arithmetic *)

Abs(x) == IF x < 0 THEN -x ELSE x

Min2(a, b) == IF a <= b THEN a ELSE b

Max2(a, b) == IF a >= b THEN a ELSE b

RECURSIVE GCD(_, _)
GCD(a, b) == IF b = 0 THEN a ELSE GCD(b, a % b)

Rat(n, d) ==
    LET s == IF d < 0 THEN -1 ELSE 1
        g == GCD(Abs(n), Abs(d))
    IN  [n |-> (s * n) \div g, d |-> (s * d) \div g]

Num(i) == [n |-> i, d |-> 1]

RAdd(a, b) ==
    LET g == GCD(a.d, b.d)
    IN  Rat(a.n * (b.d \div g) + b.n * (a.d \div g), (a.d \div g) * b.d)

RNeg(a) == [n |-> -a.n, d |-> a.d]

RSub(a, b) == RAdd(a, RNeg(b))

RMul(a, b) ==
    LET g1 == GCD(Abs(a.n), b.d)
        g2 == GCD(Abs(b.n), a.d)
        h1 == IF g1 = 0 THEN 1 ELSE g1
        h2 == IF g2 = 0 THEN 1 ELSE g2
    IN  Rat((a.n \div h1) * (b.n \div h2), (a.d \div h2) * (b.d \div h1))

RDiv(a, b) == RMul(a, Rat(b.d, b.n))

RLe(a, b) == a.n * b.d <= b.n * a.d

RLt(a, b) == a.n * b.d < b.n * a.d

RAbs(a) == [n |-> Abs(a.n), d |-> a.d]

\* math.floor and math.ceil (\div rounds toward minus infinity)
Floor(a) == a.n \div a.d

Ceil(a) == -((-a.n) \div a.d)

\* F applied to the value of x: a local variable assigned once
With(x, F(_)) == CHOOSE r \in {F(v) : v \in {x}} : TRUE

RECURSIVE RSum(_)
RSum(s) == IF s = <<>> THEN Num(0) ELSE RAdd(Head(s), RSum(Tail(s)))

----------------------------------------------------------------------------
(* Trader.config and Trader.symbols *)

symbols == <<"AMETHYSTS", "STARFRUIT", "ORCHIDS", "GIFT_BASKET",
             "CHOCOLATE", "STRAWBERRIES", "ROSES">>

config ==
    [PRODUCT |->
        [AMETHYSTS    |-> [SYMBOL |-> "AMETHYSTS", PRODUCT |-> "AMETHYSTS",
                           POSITION_LIMIT |-> 20],
         STARFRUIT    |-> [SYMBOL |-> "STARFRUIT", PRODUCT |-> "STARFRUIT",
                           POSITION_LIMIT |-> 20],
         ORCHIDS      |-> [SYMBOL |-> "ORCHIDS", PRODUCT |-> "ORCHIDS",
                           POSITION_LIMIT |-> 100,
                           COST_STORING |-> Rat(1, 10)],
         GIFT_BASKET  |-> [SYMBOL |-> "GIFT_BASKET", PRODUCT |-> "GIFT_BASKET",
                           POSITION_LIMIT |-> 60],
         CHOCOLATE    |-> [SYMBOL |-> "CHOCOLATE", PRODUCT |-> "CHOCOLATE",
                           POSITION_LIMIT |-> 250, PER_BASKET |-> 4],
         STRAWBERRIES |-> [SYMBOL |-> "STRAWBERRIES",
                           PRODUCT |-> "STRAWBERRIES",
                           POSITION_LIMIT |-> 350, PER_BASKET |-> 6],
         ROSES        |-> [SYMBOL |-> "ROSES", PRODUCT |-> "ROSES",
                           POSITION_LIMIT |-> 60, PER_BASKET |-> 1]],
     STRATEGY |->
        [AMETHYSTS   |-> [FAIR_VALUE |-> Num(10000), SL_INVENTORY |-> 20,
                          SL_SPREAD |-> Num(1), MM_SPREAD |-> Num(2),
                          ORDER_SKEW |-> Num(1)],
         STARFRUIT   |-> [FAIR_VALUE |-> Num(5000), SL_INVENTORY |-> 10,
                          SL_SPREAD |-> Num(1), MM_SPREAD |-> Num(2),
                          ORDER_SKEW |-> Num(1),
                          MIN_WINDOW_SIZE |-> 5, MAX_WINDOW_SIZE |-> 10,
                          PREDICT_SHIFT |-> 1],
         ORCHIDS     |-> [EXP_STORAGE_TIME |-> Num(1), MIN_EDGE |-> Num(1),
                          MM_EDGE |-> Rat(3, 2)],
         GIFT_BASKET |-> [PREMIUM_MEAN |-> Num(385), PREMIUM_STD |-> Num(75),
                          FAIR_VALUE |-> Num(70000), SL_INVENTORY |-> 57,
                          SL_SPREAD |-> Num(1), MM_SPREAD |-> Num(2),
                          ORDER_SKEW |-> Num(1),
                          LINEAR_SENSITIVITY |-> Num(1),
                          QUADRATIC_SENSITIVITY |-> Num(0),
                          SL_TARGET |-> 0, CARRY |-> Num(2)]]]

----------------------------------------------------------------------------
(* Order books: a side is the sequence of its <<price, quantity>> levels   *)
(* in the order of the host's dict; bid quantities are positive and ask    *)
(* quantities negative.                                                    *)

Order(symbol, price, quantity) ==
    [symbol |-> symbol, price |-> price, quantity |-> quantity]

Keys(side) == {side[i][1] : i \in 1..Len(side)}

\* side[price] of the OrderedDict
Get(side, price) ==
    LET i == CHOOSE j \in 1..Len(side) : side[j][1] = price IN side[i][2]

MaxOf(S) == CHOOSE x \in S : \A y \in S : y <= x

MinOf(S) == CHOOSE x \in S : \A y \in S : x <= y

RECURSIVE SumQty(_)
SumQty(side) ==
    IF side = <<>> THEN 0 ELSE Head(side)[2] + SumQty(Tail(side))

RECURSIVE Sweep(_)
Sweep(side) ==
    IF side = <<>> THEN 0
    ELSE Head(side)[1] * Head(side)[2] + Sweep(Tail(side))

\* Strategy.__init__ raises when a side is empty: max() and min() of an
\* empty sequence raise ValueError (and the VWAP would divide by zero)
StrategyRaises(st, symbol) ==
    \/ st.order_depths[symbol].buy_orders = <<>>
    \/ st.order_depths[symbol].sell_orders = <<>>

\* state.position.get(product, 0)
PositionGet(st, product) ==
    IF product \in DOMAIN st.position THEN st.position[product] ELSE 0

Strategy(st, product_config) ==
    LET bids == st.order_depths[product_config.SYMBOL].buy_orders
        asks == st.order_depths[product_config.SYMBOL].sell_orders
        bid_vwap == Rat(Sweep(bids), SumQty(bids))
        ask_vwap == Rat(Sweep(asks), SumQty(asks))
    IN  [symbol            |-> product_config.SYMBOL,
         product           |-> product_config.PRODUCT,
         position_limit    |-> product_config.POSITION_LIMIT,
         timestamp         |-> st.timestamp,
         position          |-> PositionGet(st, product_config.PRODUCT),
         bids              |-> bids,
         asks              |-> asks,
         best_bid          |-> MaxOf(Keys(bids)),
         best_ask          |-> MinOf(Keys(asks)),
         worst_bid         |-> MinOf(Keys(bids)),
         worst_ask         |-> MaxOf(Keys(asks)),
         bid_volume        |-> SumQty(bids),
         ask_volume        |-> SumQty(asks),
         bid_vwap          |-> bid_vwap,
         ask_vwap          |-> ask_vwap,
         mid_vwap          |-> RDiv(RAdd(bid_vwap, ask_vwap), Num(2)),
         orders            |-> <<>>,
         expected_position |-> PositionGet(st, product_config.PRODUCT),
         sum_buy_qty       |-> 0,
         sum_sell_qty      |-> 0]

----------------------------------------------------------------------------
(* class MarketMaking *)

MarketMaking(st, product_config, strategy_config) ==
    Strategy(st, product_config) @@
    [fair_value   |-> strategy_config.FAIR_VALUE,
     sl_inventory |-> strategy_config.SL_INVENTORY,
     sl_spread    |-> strategy_config.SL_SPREAD,
     mm_spread    |-> strategy_config.MM_SPREAD,
     order_skew   |-> strategy_config.ORDER_SKEW]

\* Emit that leaves expected_position as it was
Emit_NoExpected(self, price, order_quantity, isBuy) ==
    [self EXCEPT
        !.orders = Append(@, Order(self.symbol, price, order_quantity)),
        !.sum_buy_qty = IF isBuy THEN @ + order_quantity ELSE @,
        !.sum_sell_qty = IF isBuy THEN @ ELSE @ + order_quantity]

\* the three statements that follow every taking order
Emit(self, price, order_quantity, isBuy) ==
    [self EXCEPT
        !.orders = Append(@, Order(self.symbol, price, order_quantity)),
        !.expected_position = @ + order_quantity,
        !.sum_buy_qty = IF isBuy THEN @ + order_quantity ELSE @,
        !.sum_sell_qty = IF isBuy THEN @ ELSE @ + order_quantity]

\* HasDepth that accepts the sole level of a side
HasDepth_Any(side) == Len(side) >= 1

\* len(self.bids) >= 2, len(self.asks) >= 2: a level behind the touched one
HasDepth(side) == Len(side) >= 2

scratch_under_valued(self0, mid_vwap) ==
    With(self0, LAMBDA self :
    LET reserve_price == IF mid_vwap THEN self.mid_vwap ELSE self.fair_value
    IN  IF -self.sl_inventory <= self.position
           /\ self.position <= self.sl_inventory
        THEN IF RLe(reserve_price, Num(self.best_bid)) /\ HasDepth(self.bids)
             THEN Emit(self, self.best_bid,
                       Min2(Max2(-Get(self.bids, self.best_bid),
                                 -self.position_limit
                                     - Min2(self.position, 0)), 0),
                       FALSE)
             ELSE IF RLe(Num(self.best_ask), reserve_price)
                     /\ HasDepth(self.asks)
             THEN Emit(self, self.best_ask,
                       Max2(Min2(-Get(self.asks, self.best_ask),
                                 self.position_limit
                                     - Max2(self.position, 0)), 0),
                       TRUE)
             ELSE self
        ELSE self)

\* StopLossSellQty that takes the resting bid quantity as it is signed in
\* the book
StopLossSellQty_Unsigned(self) ==
    Max2(Get(self.bids, self.best_bid), -self.position + self.sl_inventory)

\* order_quantity of the stop-loss sell, round_3.py line 99
StopLossSellQty(self) ==
    Max2(-Get(self.bids, self.best_bid), -self.position + self.sl_inventory)

\* StopLossBuyQty that buys the short position back to flat
StopLossBuyQty_Flat(self) ==
    Min2(-Get(self.asks, self.best_ask), -self.position)

\* order_quantity of the stop-loss buy, round_3.py line 109
StopLossBuyQty(self) ==
    Min2(-Get(self.asks, self.best_ask), -self.position - self.sl_inventory)

stop_loss(self0, ignore_worst) ==
    With(self0, LAMBDA self :
    LET need == (IF ignore_worst THEN 1 ELSE 0) + 1
    IN  IF self.position > self.sl_inventory
           /\ RLe(RSub(self.fair_value, self.sl_spread), Num(self.best_bid))
        THEN IF Len(self.bids) >= need
             THEN Emit(self, self.best_bid, StopLossSellQty(self), FALSE)
             ELSE self
        ELSE IF self.position < -self.sl_inventory
                /\ RLe(Num(self.best_ask),
                       RAdd(self.fair_value, self.sl_spread))
        THEN IF Len(self.asks) >= need
             THEN Emit(self, self.best_ask, StopLossBuyQty(self), TRUE)
             ELSE self
        ELSE self)

Min4(a, b, c, d) == Min2(Min2(a, b), Min2(c, d))

Max4(a, b, c, d) == Max2(Max2(a, b), Max2(c, d))

\* BidLimit that forgets the orders already emitted in the tick
BidLimit_NoTakes(self) ==
    Max2(Min2(self.position_limit, self.position_limit - self.position), 0)

\* round_3.py lines 120-123 and 258-261
BidLimit(self) ==
    Max2(Min4(self.position_limit,
              self.position_limit - self.position,
              self.position_limit - self.expected_position,
              self.position_limit - self.sum_buy_qty - self.position), 0)

\* round_3.py lines 124-127 and 262-265
AskLimit(self) ==
    Min2(Max4(-self.position_limit,
              -self.position_limit - self.position,
              -self.position_limit - self.expected_position,
              -self.position_limit - self.sum_sell_qty - self.position), 0)

\* BidPrice with the sign of the half-spread slipped
BidPrice_Plus(fair_value, mm_spread) == Ceil(RAdd(fair_value, mm_spread))

BidPrice(fair_value, mm_spread) == Ceil(RSub(fair_value, mm_spread))

AskPrice(fair_value, mm_spread) == Floor(RAdd(fair_value, mm_spread))

\* round_3.py line 130
BidSkew(self) ==
    Ceil(RMul(self.order_skew, Num(Max2(self.expected_position, 0))))

\* AskSkew that shrinks the ask side by the long inventory
AskSkew_WhenLong(self) ==
    -Ceil(RMul(self.order_skew, Num(Max2(self.expected_position, 0))))

\* round_3.py line 131
AskSkew(self) ==
    Floor(RMul(self.order_skew, Num(Min2(self.expected_position, 0))))

\* market_make that leaves the bid levels in ascending order of price
market_make_Resorted(self0) ==
    With(self0, LAMBDA self :
    [self EXCEPT
        !.orders = @ \o
            <<Order(self.symbol, BidPrice(self.fair_value, self.mm_spread),
                    Min2(Max2(BidLimit(self) - BidSkew(self), 0),
                         BidLimit(self))),
              Order(self.symbol, AskPrice(self.fair_value, self.mm_spread),
                    Max2(Min2(AskLimit(self) - AskSkew(self), 0),
                         AskLimit(self)))>>,
        !.bids = [i \in 1..Len(@) |-> @[Len(@) + 1 - i]]])

\* round_3.py lines 115-140
market_make(self0) ==
    With(self0, LAMBDA self :
    LET bid_limit == BidLimit(self)
        ask_limit == AskLimit(self)
        bid_skew == BidSkew(self)
        ask_skew == AskSkew(self)
        bid_quantity == Min2(Max2(bid_limit - bid_skew, 0), bid_limit)
        ask_quantity == Max2(Min2(ask_limit - ask_skew, 0), ask_limit)
        bid_price == BidPrice(self.fair_value, self.mm_spread)
        ask_price == AskPrice(self.fair_value, self.mm_spread)
    IN  [self EXCEPT
            !.orders = @ \o <<Order(self.symbol, bid_price, bid_quantity),
                              Order(self.symbol, ask_price, ask_quantity)>>])

\* aggregate_orders that quotes before it takes
aggregate_orders_QuoteFirst(self, ignore_worst_sl) ==
    stop_loss(scratch_under_valued(market_make(self), FALSE), ignore_worst_sl)

\* round_3.py lines 149-153
aggregate_orders(self, ignore_worst_sl) ==
    market_make(stop_loss(scratch_under_valued(self, FALSE), ignore_worst_sl))

----------------------------------------------------------------------------
(* class LinearRegressionMM *)

LinearRegressionMM(st, product_config, strategy_config) ==
    MarketMaking(st, product_config, strategy_config) @@
    [min_window_size |-> strategy_config.MIN_WINDOW_SIZE,
     max_window_size |-> strategy_config.MAX_WINDOW_SIZE,
     predict_shift   |-> strategy_config.PREDICT_SHIFT]

\* statistics.linear_regression(xs, ys) with integer xs and rational ys
linear_regression(xs, ys) ==
    LET n == Len(xs) IN
    With(Rat(SumQty([i \in 1..n |-> <<0, xs[i]>>]), n), LAMBDA xbar :
    With(RDiv(RSum(ys), Num(n)), LAMBDA ybar :
    LET sxy == RSum([i \in 1..n |->
                        RMul(RSub(Num(xs[i]), xbar), RSub(ys[i], ybar))])
        sxx == RSum([i \in 1..n |->
                        RMul(RSub(Num(xs[i]), xbar), RSub(Num(xs[i]), xbar))])
    IN  With(RDiv(sxy, sxx), LAMBDA slope :
            [slope |-> slope, intercept |-> RSub(ybar, RMul(slope, xbar))])))

\* the fitted line evaluated at the current timestamp, without the shift
y_hat_NoShift(self, lr) ==
    RAdd(RMul(lr.slope, Num(self.timestamp)), lr.intercept)

y_hat(self, lr) ==
    RAdd(RMul(lr.slope, Num(self.timestamp + 100 * self.predict_shift)),
         lr.intercept)

\* a short window that keeps the configured FAIR_VALUE
short_window_fair_value_KeepConfig(self) == self.fair_value

short_window_fair_value(self) == self.mid_vwap

predict_price(self0, price_history0) ==
    With(self0, LAMBDA self :
    With(price_history0, LAMBDA price_history :
    LET n == Len(price_history)
    IN  IF n >= self.min_window_size
        THEN LET t == self.timestamp \div 100
                 xs == [i \in 1..n |-> 100 * (t - n + i)]
             IN  With(linear_regression(xs, price_history), LAMBDA lr :
                    [self EXCEPT !.fair_value = y_hat(self, lr)])
        ELSE [self EXCEPT !.fair_value = short_window_fair_value(self)]))

----------------------------------------------------------------------------
(* class OTCArbitrage *)

OTCArbitrage(st, product_config, strategy_config) ==
    LET observation ==
            st.observations.conversionObservations[product_config.SYMBOL]
        cost_export ==
            RAdd(observation.transportFees, observation.exportTariff)
    IN  Strategy(st, product_config) @@
        [unit_cost_storing     |-> product_config.COST_STORING,
         otc_bid               |-> observation.bidPrice,
         otc_ask               |-> observation.askPrice,
         cost_import           |-> RAdd(observation.transportFees,
                                        observation.importTariff),
         cost_export           |-> cost_export,
         sunlight              |-> observation.sunlight,
         humidity              |-> observation.humidity,
         conversions           |-> 0,
         expected_storage_time |-> strategy_config.EXP_STORAGE_TIME,
         effective_cost_export |->
             RAdd(cost_export, RMul(strategy_config.EXP_STORAGE_TIME,
                                    product_config.COST_STORING)),
         min_edge              |-> strategy_config.MIN_EDGE,
         mm_edge               |-> strategy_config.MM_EDGE]

LongEdge(self, price) ==
    RSub(RSub(self.otc_bid, Num(price)), self.effective_cost_export)

ShortEdge(self, price) ==
    RSub(RSub(Num(price), self.otc_ask), self.cost_import)

\* LongTakeQty sized to the full distance from the expected position to the
\* limit
LongTakeQty_ToLimit(self, quantity) ==
    Max2(Min2(-quantity, self.position_limit - self.expected_position), 0)

\* size of one long take, round_3.py lines 232-233
LongTakeQty(self, quantity) ==
    Max2(Min2(-quantity,
              self.position_limit - Max2(self.expected_position, 0)), 0)

\* the loop over self.asks.items(), from level i on
RECURSIVE LongLoop(_, _)
LongLoop(self0, i) ==
    With(self0, LAMBDA self :
    IF i > Len(self.asks) THEN self
    ELSE LET price == self.asks[i][1]
             quantity == self.asks[i][2]
         IN  IF RLe(self.min_edge, LongEdge(self, price))
             THEN LongLoop(Emit(self, price, LongTakeQty(self, quantity),
                                TRUE), i + 1)
             ELSE self)

\* the loop over self.bids.items(), from level i on: every order is priced
\* at self.best_bid and sized from self.bids[self.best_bid]
RECURSIVE ShortLoop(_, _)
ShortLoop(self0, i) ==
    With(self0, LAMBDA self :
    IF i > Len(self.bids) THEN self
    ELSE LET price == self.bids[i][1]
         IN  IF RLe(self.min_edge, ShortEdge(self, price))
             THEN ShortLoop(
                     Emit(self, self.best_bid,
                          Min2(Max2(-Get(self.bids, self.best_bid),
                                    -self.position_limit
                                        - Min2(self.expected_position, 0)),
                               0),
                          FALSE), i + 1)
             ELSE self)

\* MaxKey that gives a tie to the short side
MaxKey_TieShort(long_arb_edge, short_arb_edge) ==
    IF RLt(short_arb_edge, long_arb_edge) THEN "Long" ELSE "Short"

\* max(edges, key=...) returns the first key of the largest edge
MaxKey(long_arb_edge, short_arb_edge) ==
    IF RLe(short_arb_edge, long_arb_edge) THEN "Long" ELSE "Short"

arbitrage_exchange_enter(self0) ==
    With(self0, LAMBDA self :
    LET long_arb_edge == LongEdge(self, self.best_ask)
        short_arb_edge == ShortEdge(self, self.best_bid)
        max_key == MaxKey(long_arb_edge, short_arb_edge)
    IN  IF max_key = "Long" /\ RLe(self.min_edge, long_arb_edge)
        THEN LongLoop(self, 1)
        ELSE IF max_key = "Short" /\ RLe(self.min_edge, short_arb_edge)
        THEN ShortLoop(self, 1)
        ELSE self)

\* OTCBidPrice rounded up to the next integer price
OTCBidPrice_Ceil(self) ==
    Ceil(RSub(RSub(self.otc_bid, self.effective_cost_export), self.mm_edge))

\* round_3.py lines 268 and 270
OTCBidPrice(self) ==
    LET bid_arb_free == RSub(self.otc_bid, self.effective_cost_export)
    IN  Floor(RSub(bid_arb_free, self.mm_edge))

\* round_3.py lines 269 and 271
OTCAskPrice(self) ==
    LET ask_arb_free == RAdd(self.otc_ask, self.cost_import)
    IN  Ceil(RAdd(ask_arb_free, self.mm_edge))

OTCArbitrage_market_make(self0) ==
    With(self0, LAMBDA self :
    LET bid_quantity == BidLimit(self)
        ask_quantity == AskLimit(self)
        bid_price == OTCBidPrice(self)
        ask_price == OTCAskPrice(self)
    IN  [self EXCEPT
            !.orders = @ \o <<Order(self.symbol, bid_price, bid_quantity),
                              Order(self.symbol, ask_price, ask_quantity)>>])

\* arbitrage_otc_exit that converts the expected position
arbitrage_otc_exit_Expected(self0) ==
    With(self0, LAMBDA self :
        [self EXCEPT !.conversions = -self.expected_position])

arbitrage_otc_exit(self0) ==
    With(self0, LAMBDA self : [self EXCEPT !.conversions = -self.position])

aggregate_orders_conversions(self) ==
    arbitrage_otc_exit(OTCArbitrage_market_make(arbitrage_exchange_enter(self)))

----------------------------------------------------------------------------
(* class BasketTrading *)

RMin2(a, b) == IF RLe(a, b) THEN a ELSE b

RECURSIVE RMinSeq(_)
RMinSeq(s) ==
    IF Len(s) = 1 THEN s[1] ELSE RMin2(Head(s), RMinSeq(Tail(s)))

\* BasketLimit that keeps the configured limit of the basket
BasketLimit_Configured(c_symbols, c_limits, c_ratios, configured) ==
    configured

\* round_3.py lines 322-323
BasketLimit(c_symbols, c_limits, c_ratios, configured) ==
    Min2(Floor(RMinSeq([i \in 1..Len(c_symbols) |->
                           Rat(c_limits[c_symbols[i]],
                               c_ratios[c_symbols[i]])])),
         configured)

BasketTrading(st, basket_config, constituent_config, strategy_config) ==
    LET c_symbols == <<"CHOCOLATE", "STRAWBERRIES", "ROSES">>
        constituent == [s \in DOMAIN constituent_config |->
                           Strategy(st, constituent_config[s])]
        c_ratios == [s \in DOMAIN constituent_config |->
                        constituent_config[s].PER_BASKET]
        c_limits == [s \in DOMAIN constituent_config |->
                        constituent[s].position_limit]
        c_mid_vwap == [s \in DOMAIN constituent_config |->
                          constituent[s].mid_vwap]
        basket_nav == RSum([i \in 1..Len(c_symbols) |->
                               RMul(Num(c_ratios[c_symbols[i]]),
                                    c_mid_vwap[c_symbols[i]])])
    IN
    With(MarketMaking(st, basket_config, strategy_config), LAMBDA basket0 :
    LET basket_limit == BasketLimit(c_symbols, c_limits, c_ratios,
                                    basket0.position_limit)
        basket == [basket0 EXCEPT !.fair_value = basket0.mid_vwap,
                                  !.position_limit = basket_limit]
        premium == RSub(basket.mid_vwap, basket_nav)
    IN  [basket       |-> basket,
         c_symbols    |-> c_symbols,
         c_ratios     |-> c_ratios,
         c_limits     |-> c_limits,
         c_mid_vwap   |-> c_mid_vwap,
         basket_limit |-> basket_limit,
         premium_mean |-> strategy_config.PREMIUM_MEAN,
         premium_std  |-> strategy_config.PREMIUM_STD,
         alpha        |-> strategy_config.LINEAR_SENSITIVITY,
         beta         |-> strategy_config.QUADRATIC_SENSITIVITY,
         sl_target    |-> strategy_config.SL_TARGET,
         carry        |-> strategy_config.CARRY,
         basket_nav   |-> basket_nav,
         premium      |-> premium,
         z_score      |-> RDiv(RSub(premium, strategy_config.PREMIUM_MEAN),
                               strategy_config.PREMIUM_STD)])

\* PricingShift that follows the demeaned premium
PricingShift_Along(premium, premium_mean, z_score, alpha, beta) ==
    LET demeaned_premium == RSub(premium, premium_mean)
        scaling_coefficient ==
            RAdd(RMul(alpha, RAbs(z_score)),
                 RMul(beta, RMul(z_score, z_score)))
    IN  RMul(demeaned_premium, scaling_coefficient)

\* round_3.py lines 344-346
PricingShift(premium, premium_mean, z_score, alpha, beta) ==
    LET demeaned_premium == RSub(premium, premium_mean)
        scaling_coefficient ==
            RAdd(RMul(alpha, RAbs(z_score)),
                 RMul(beta, RMul(z_score, z_score)))
    IN  RMul(RNeg(demeaned_premium), scaling_coefficient)

\* calculate_fair_value that prices from the net asset value
calculate_fair_value_FromNav(bt0) ==
    With(bt0, LAMBDA bt :
    [bt EXCEPT !.basket.fair_value =
        RAdd(bt.basket_nav,
             PricingShift(bt.premium, bt.premium_mean, bt.z_score,
                          bt.alpha, bt.beta))])

calculate_fair_value(bt0) ==
    With(bt0, LAMBDA bt :
    [bt EXCEPT !.basket.fair_value =
        RAdd(@, PricingShift(bt.premium, bt.premium_mean, bt.z_score,
                             bt.alpha, bt.beta))])

\* AggressiveSellPrice that hits the best bid
AggressiveSellPrice_Best(bt) == bt.basket.best_bid

\* order_price of the aggressive stop-loss sell, round_3.py line 356
AggressiveSellPrice(bt) == bt.basket.worst_bid

aggressive_stop_loss(bt0) ==
    With(bt0, LAMBDA bt :
    IF bt.basket.position > bt.basket.sl_inventory
    THEN [bt EXCEPT !.basket =
            Emit(@, AggressiveSellPrice(bt),
                 Max2(-bt.basket.bid_volume,
                      bt.sl_target - bt.basket.position), FALSE)]
    ELSE IF bt.basket.position < -bt.basket.sl_inventory
    THEN [bt EXCEPT !.basket =
            Emit(@, bt.basket.worst_ask,
                 Min2(-bt.basket.ask_volume,
                      -bt.sl_target - bt.basket.position), TRUE)]
    ELSE bt)

aggregate_basket_orders(bt) ==
    With(calculate_fair_value(bt), LAMBDA b1 :
    With([b1 EXCEPT !.basket = scratch_under_valued(@, TRUE)], LAMBDA b2 :
    With(aggressive_stop_loss(b2), LAMBDA b3 :
        [b3 EXCEPT !.basket = market_make(@)])))

----------------------------------------------------------------------------
(* class Trader *)

Traded == {"AMETHYSTS", "STARFRUIT", "ORCHIDS", "GIFT_BASKET"}

\* the traderData string of the first tick
EmptyBlob == [text |-> "", items |-> <<>>]

\* an encoder that writes every float as a whole number
jsonpickle_encode_Rounded(d) ==
    [text |-> "py/reduce collections.deque",
     items |-> [i \in 1..Len(d) |-> <<Floor(d[i]), 1>>]]

\* jsonpickle.encode(self.data, keys=True): the deque is written as a
\* py/reduce of collections.deque over the list of its floats, each float
\* as its shortest round-tripping decimal text
jsonpickle_encode(d) ==
    [text |-> "py/reduce collections.deque",
     items |-> [i \in 1..Len(d) |-> <<d[i].n, d[i].d>>]]

\* a traderData string cut off before its end
TruncatedBlob(d) ==
    [text |-> "py/reduce collections.de",
     items |-> [i \in 1..(Len(d) - 1) |-> <<d[i].n, d[i].d>>]]

\* jsonpickle.decode raises on text that is not JSON: the empty string and a
\* string cut off before its end
DecodeRaises(encoded) == encoded.text # "py/reduce collections.deque"

jsonpickle_decode(encoded) ==
    [i \in 1..Len(encoded.items) |->
        Rat(encoded.items[i][1], encoded.items[i][2])]

\* data_loss is any(bool(v) ...): true when the window is NOT empty
RestoreDecodes(d, ts) == ts >= 100 /\ d # <<>>

restore_data(d, ts, encoded_data) ==
    IF RestoreDecodes(d, ts) THEN jsonpickle_decode(encoded_data) ELSE d

\* the eviction loop with the comparison off by one
RECURSIVE Evict_Late(_, _)
Evict_Late(d, max_size) ==
    IF Len(d) > max_size THEN Evict_Late(Tail(d), max_size) ELSE d

RECURSIVE Evict(_, _)
Evict(d, max_size) ==
    IF Len(d) >= max_size THEN Evict(Tail(d), max_size) ELSE d

\* store_data that puts the new value at the front of the window
store_data_Front(d, value, max_size) ==
    IF max_size # 0 THEN <<value>> \o Evict(d, max_size)
    ELSE <<value>> \o d

\* round_3.py lines 469-472
store_data(d, value, max_size) ==
    IF max_size # 0 THEN Append(Evict(d, max_size), value)
    ELSE Append(d, value)

NoObj == [symbol |-> "none"]

NoObjs == [fixed_mm |-> NoObj, lr_mm |-> NoObj, otc_arb |-> NoObj,
           basket_trading |-> NoObj]

Raised(d, os) ==
    [status |-> "exception", data |-> d, objs |-> os]

\* WindowRead that hands the regression the window as it was before
\* store_data
WindowRead_Stale(before, after) == before

\* self.data[symbol] as read at round_3.py line 502, after the store_data
\* of line 501
WindowRead(before, after) == after

\* Trader.run: the statements in source order; an exception raised by a
\* constructor or by the decoder leaves run at that statement
run(d, st) ==
    LET config_p == config.PRODUCT
        config_s == config.STRATEGY
    IN
    IF RestoreDecodes(d, st.timestamp) /\ DecodeRaises(st.traderData)
    THEN Raised(d, NoObjs)
    ELSE
    With(restore_data(d, st.timestamp, st.traderData), LAMBDA d1 :
    IF StrategyRaises(st, symbols[1]) THEN Raised(d1, NoObjs)
    ELSE
    With(aggregate_orders(
            MarketMaking(st, config_p[symbols[1]], config_s[symbols[1]]),
            TRUE), LAMBDA fixed_mm :
    IF StrategyRaises(st, symbols[2])
    THEN Raised(d1, [NoObjs EXCEPT !.fixed_mm = fixed_mm])
    ELSE
    With(LinearRegressionMM(st, config_p[symbols[2]], config_s[symbols[2]]),
         LAMBDA lr0 :
    With(store_data(d1, lr0.mid_vwap, lr0.max_window_size), LAMBDA d2 :
    With(aggregate_orders(predict_price(lr0, WindowRead(d1, d2)), TRUE),
         LAMBDA lr_mm :
    IF StrategyRaises(st, symbols[3])
    THEN Raised(d2, [NoObjs EXCEPT !.fixed_mm = fixed_mm, !.lr_mm = lr_mm])
    ELSE
    With(aggregate_orders_conversions(
            OTCArbitrage(st, config_p[symbols[3]], config_s[symbols[3]])),
         LAMBDA otc_arb :
    IF \E i \in 4..7 : StrategyRaises(st, symbols[i])
    THEN Raised(d2, [NoObjs EXCEPT !.fixed_mm = fixed_mm, !.lr_mm = lr_mm,
                                   !.otc_arb = otc_arb])
    ELSE
    With(aggregate_basket_orders(
            BasketTrading(st, config_p[symbols[4]],
                          [s \in {symbols[i] : i \in 5..7} |-> config_p[s]],
                          config_s[symbols[4]])),
         LAMBDA basket_trading :
        [status      |-> "ok",
         data        |-> d2,
         objs        |-> [fixed_mm |-> fixed_mm, lr_mm |-> lr_mm,
                          otc_arb |-> otc_arb,
                          basket_trading |-> basket_trading],
         result      |-> [AMETHYSTS   |-> fixed_mm.orders,
                          STARFRUIT   |-> lr_mm.orders,
                          ORCHIDS     |-> otc_arb.orders,
                          GIFT_BASKET |-> basket_trading.basket.orders],
         conversions |-> otc_arb.conversions,
         traderData  |-> jsonpickle_encode(d2)])))))))

\* what the host sees of a call
Returned(r) ==
    IF r.status = "ok"
    THEN [status |-> "ok", result |-> r.result,
          conversions |-> r.conversions, traderData |-> r.traderData]
    ELSE [status |-> "exception"]

----------------------------------------------------------------------------
(* The host: the order books and external quotes it supplies.  In a        *)
(* session the market of one product, focus, is active: its book changes   *)
(* from tick to tick and its orders are matched; the other products show   *)
(* a quiet book and their orders rest unfilled.                            *)

Depth(buy_orders, sell_orders) ==
    [buy_orders |-> buy_orders, sell_orders |-> sell_orders]

\* a two-level book whose mid-VWAP is m
BookAt(m) ==
    Depth(<<<<m - 1, 5>>, <<m - 3, 5>>>>, <<<<m + 1, -5>>, <<m + 3, -5>>>>)

\* a tighter book whose mid-VWAP is m + 3/4
HalfBook(m) ==
    Depth(<<<<m, 5>>, <<m - 1, 5>>>>, <<<<m + 1, -5>>, <<m + 3, -5>>>>)

AmethystsQuiet ==
    Depth(<<<<9996, 2>>, <<9995, 20>>>>, <<<<10004, -2>>, <<10005, -20>>>>)

AmethystsBooks ==
    {AmethystsQuiet,
     Depth(<<<<10000, 3>>, <<9995, 20>>>>, AmethystsQuiet.sell_orders),
     Depth(AmethystsQuiet.buy_orders, <<<<9998, -25>>, <<10005, -20>>>>),
     Depth(<<<<10002, 5>>>>, AmethystsQuiet.sell_orders),
     Depth(<<>>, AmethystsQuiet.sell_orders)}

\* mid-VWAPs of the STARFRUIT books
Prices == {100, 200, 300, 400, 500}

StarfruitBooks ==
    {BookAt(200), HalfBook(100), Depth(BookAt(100).buy_orders, <<>>)}

\* the books that continue a price history over Prices
HistoryBooks == {BookAt(m) : m \in Prices}

OrchidsQuiet ==
    Depth(<<<<98, 5>>, <<97, 10>>>>, <<<<102, -5>>, <<103, -10>>>>)

\* asks below the external bid, three levels
OrchidsCheap ==
    Depth(<<<<93, 5>>, <<92, 10>>>>,
          <<<<95, -5>>, <<98, -120>>, <<101, -10>>>>)

\* asks below the external bid, more resting at the best ask than the limit
OrchidsDeep ==
    Depth(<<<<93, 5>>, <<92, 10>>>>, <<<<95, -120>>, <<98, -5>>>>)

\* bids above the external ask
OrchidsRich ==
    Depth(<<<<104, 5>>, <<103, 10>>, <<101, 10>>>>,
          <<<<106, -5>>, <<107, -5>>>>)

Observation(bid, ask, transport, export, import) ==
    [bidPrice |-> bid, askPrice |-> ask, transportFees |-> transport,
     exportTariff |-> export, importTariff |-> import,
     sunlight |-> Num(2500), humidity |-> Num(70)]

\* external quote 100 / 101 with zero effective export and import cost
ObservationFree ==
    Observation(Num(100), Num(101), Num(1), Rat(-11, 10), Num(-1))

\* the same quote with export cost 2.1 and import cost 2
ObservationCost ==
    Observation(Num(100), Num(101), Num(1), Num(1), Num(1))

\* constituents: NAV = 4 * 10 + 6 * 5 + 1 * 15 = 85
ChocolateBook == Depth(<<<<9, 5>>>>, <<<<11, -5>>>>)

StrawberriesBook == Depth(<<<<4, 5>>>>, <<<<6, -5>>>>)

RosesBook == Depth(<<<<14, 5>>>>, <<<<16, -5>>>>)

\* basket books: premium 385 (the mean), 400, 370, and 385 with a best bid
\* above the mid-VWAP
BasketQuiet ==
    Depth(<<<<468, 5>>, <<466, 5>>>>, <<<<472, -5>>, <<474, -5>>>>)

BasketBooks ==
    {BasketQuiet,
     Depth(<<<<483, 5>>, <<481, 5>>>>, <<<<487, -5>>, <<489, -5>>>>),
     Depth(<<<<453, 5>>, <<451, 5>>>>, <<<<457, -5>>, <<459, -5>>>>),
     Depth(<<<<472, 1>>, <<462, 9>>>>, <<<<474, -5>>, <<480, -5>>>>)}

QuietDepths ==
    [AMETHYSTS |-> AmethystsQuiet, STARFRUIT |-> BookAt(100),
     ORCHIDS |-> OrchidsQuiet, GIFT_BASKET |-> BasketQuiet,
     CHOCOLATE |-> ChocolateBook, STRAWBERRIES |-> StrawberriesBook,
     ROSES |-> RosesBook]

Market(order_depths, observation) ==
    [order_depths |-> order_depths,
     observations |-> [conversionObservations |-> [ORCHIDS |-> observation]]]

\* the markets the host can show at a tick of a session on product f
Markets(f) ==
    IF f = "AMETHYSTS"
    THEN {Market([QuietDepths EXCEPT !.AMETHYSTS = b], ObservationFree) :
            b \in AmethystsBooks}
    ELSE IF f = "STARFRUIT"
    THEN {Market([QuietDepths EXCEPT !.STARFRUIT = b], ObservationFree) :
            b \in StarfruitBooks}
    ELSE IF f = "ORCHIDS"
    THEN {Market([QuietDepths EXCEPT !.ORCHIDS = b], ObservationFree) :
            b \in {OrchidsQuiet, OrchidsCheap, OrchidsDeep, OrchidsRich,
                    Depth(OrchidsQuiet.buy_orders, <<>>)}}
         \cup {Market([QuietDepths EXCEPT !.ORCHIDS = OrchidsCheap],
                      ObservationCost)}
    ELSE {Market([QuietDepths EXCEPT !.GIFT_BASKET = b], ObservationFree) :
            b \in BasketBooks}
         \cup {Market([QuietDepths EXCEPT !.ROSES =
                          Depth(RosesBook.buy_orders, <<>>)],
                      ObservationFree)}

TradingState(ts, blob, pos, market) ==
    [timestamp |-> ts, traderData |-> blob, position |-> pos,
     order_depths |-> market.order_depths,
     observations |-> market.observations]

\* half of an order, rounded toward zero
Half(q) == IF q >= 0 THEN q \div 2 ELSE -((-q) \div 2)

\* the host matches any subset of the orders fully: the possible sums of
\* the matched quantities
RECURSIVE FillTotals(_)
FillTotals(orders) ==
    IF orders = <<>> THEN {0}
    ELSE {f + t : f \in {0, Head(orders).quantity},
                  t \in FillTotals(Tail(orders))}

\* the host matches every order by half
RECURSIVE HalfTotal(_)
HalfTotal(orders) ==
    IF orders = <<>> THEN 0
    ELSE Half(Head(orders).quantity) + HalfTotal(Tail(orders))

NoState == [timestamp |-> -1]

NoOut == [status |-> "none"]

----------------------------------------------------------------------------
(* The session *)

Init ==
    /\ timestamp = 0
    /\ position = [s \in Traded |-> 0]
    /\ data = <<>>
    /\ traderData = EmptyBlob
    /\ state = NoState
    /\ out = NoOut
    /\ prev = NoOut
    /\ objs = NoObjs
    /\ calls = 0
    /\ focus \in Traded
    /\ pc = "idle"

\* the effect of one call of Trader.run on the engine and on what the
\* host holds of it
Call(st) ==
    \E r \in {run(data, st)} :
        /\ state' = st
        /\ data' = r.data
        /\ objs' = r.objs
        /\ out' = Returned(r)
        /\ pc' = IF r.status = "ok" THEN "ran" ELSE "failed"

\* the host calls Trader.run with the snapshot of a new tick, whose market
\* is one of M
Tick(M) ==
    /\ pc = "idle"
    /\ \E m \in M :
          Call(TradingState(timestamp, traderData, position, m))
    /\ prev' = NoOut
    /\ calls' = 1
    /\ UNCHANGED <<timestamp, position, traderData, focus>>

Run == Tick(Markets(focus))

\* the host calls Trader.run again with the identical TradingState
RunAgain ==
    /\ pc = "ran"
    /\ calls < MaxCalls
    /\ Call(state)
    /\ prev' = out
    /\ calls' = calls + 1
    /\ UNCHANGED <<timestamp, position, traderData, focus>>

\* the host matches orders of the active product (any subset of them fully,
\* or all of them by half), applies the conversion request to ORCHIDS, keeps
\* the returned traderData and moves to the next tick
HostFill ==
    /\ pc = "ran"
    /\ timestamp < 100 * MaxTick
    /\ \E total \in FillTotals(out.result[focus])
                       \cup {HalfTotal(out.result[focus])} :
          position' = [s \in Traded |->
                          position[s]
                          + (IF s = focus THEN total ELSE 0)
                          + (IF s = "ORCHIDS" THEN out.conversions ELSE 0)]
    /\ traderData' = out.traderData
    /\ timestamp' = timestamp + 100
    /\ state' = NoState
    /\ out' = NoOut
    /\ prev' = NoOut
    /\ objs' = NoObjs
    /\ calls' = 0
    /\ pc' = "idle"
    /\ UNCHANGED <<data, focus>>

\* the process that holds Trader.data is replaced between two ticks: the
\* class attribute is a fresh empty deque again (data holds STARFRUIT
\* values only, so the sessions on STARFRUIT are the ones that show it)
DataLoss ==
    /\ pc = "idle"
    /\ focus = "STARFRUIT"
    /\ data # <<>>
    /\ data' = <<>>
    /\ UNCHANGED <<timestamp, position, traderData, state, out, prev, objs,
                   calls, focus, pc>>

Next == Run \/ RunAgain \/ HostFill \/ DataLoss

Spec == Init /\ [][Next]_vars

----------------------------------------------------------------------------
(* One tick in the middle of a STARFRUIT session: the ticks before it      *)
(* showed the mid-VWAPs of a window w, the host holds the traderData of    *)
(* the last of them (whole, cut off, or not at all), and the engine holds  *)
(* either the same window or, after a restart of its process, an empty     *)
(* one.                                                                    *)

\* a price history over Prices that moves by at most one step of 100 a tick
Smooth(w) ==
    \A i \in 1..(Len(w) - 1) : RLe(RAbs(RSub(w[i + 1], w[i])), Num(100))

Windows ==
    UNION {{w \in [1..k -> {Num(m) : m \in Prices}] : Smooth(w)} :
             k \in 0..MaxHist}

\* windows around MAX_WINDOW_SIZE, as a carried state of any length holds
LongWindows ==
    {[i \in 1..k |-> Num(100)] :
        k \in (config.STRATEGY.STARFRUIT.MAX_WINDOW_SIZE - 1)
                ..(config.STRATEGY.STARFRUIT.MAX_WINDOW_SIZE + 2)}

\* the traderData the host hands in for a history w: the string the last
\* tick returned, or nothing, or a cut-off string
Blobs(w) ==
    IF w = <<>> THEN {EmptyBlob}
    ELSE {jsonpickle_encode(w), EmptyBlob, TruncatedBlob(w)}

InitHistory ==
    /\ \E w \in Windows \cup LongWindows :
          /\ timestamp = 100 * Len(w)
          /\ data \in {w, <<>>}
          /\ traderData \in Blobs(w)
    /\ position = [s \in Traded |-> 0]
    /\ state = NoState
    /\ out = NoOut
    /\ prev = NoOut
    /\ objs = NoObjs
    /\ calls = 0
    /\ focus = "STARFRUIT"
    /\ pc = "idle"

RunHistory ==
    Tick({Market([QuietDepths EXCEPT !.STARFRUIT = b], ObservationFree) :
            b \in HistoryBooks})

NextHistory == RunHistory \/ RunAgain \/ DataLoss

SpecHistory == InitHistory /\ [][NextHistory]_vars

----------------------------------------------------------------------------
(* MarketMaking.market_make on its own, for any fair value, half-spread    *)
(* and position of an AMETHYSTS-like product                               *)

QuoteFairValues == {Rat(40000 + j, 4) : j \in -4..4}

QuoteSpreads == {Num(0), Rat(1, 4), Rat(1, 2), Num(1), Rat(3, 2), Num(2)}

QuotePositions == {-20, -5, 0, 5, 20}

InitQuote ==
    /\ \E f \in QuoteFairValues, sp \in QuoteSpreads, p \in QuotePositions :
          objs = [NoObjs EXCEPT !.fixed_mm =
                    MarketMaking(
                        TradingState(0, EmptyBlob,
                                     [s \in Traded |->
                                        IF s = "AMETHYSTS" THEN p ELSE 0],
                                     Market(QuietDepths, ObservationFree)),
                        config.PRODUCT.AMETHYSTS,
                        [config.STRATEGY.AMETHYSTS EXCEPT
                            !.FAIR_VALUE = f, !.MM_SPREAD = sp])]
    /\ timestamp = 0
    /\ position = [s \in Traded |-> 0]
    /\ data = <<>>
    /\ traderData = EmptyBlob
    /\ state = NoState
    /\ out = NoOut
    /\ prev = NoOut
    /\ calls = 0
    /\ focus = "AMETHYSTS"
    /\ pc = "unit"

Quote ==
    /\ pc = "unit"
    /\ objs' = [objs EXCEPT !.fixed_mm = market_make(@)]
    /\ pc' = "unit_done"
    /\ UNCHANGED <<timestamp, position, data, traderData, state, out, prev,
                   calls, focus>>

SpecQuote == InitQuote /\ [][Quote]_vars

----------------------------------------------------------------------------
(* BasketTrading.calculate_fair_value on its own, over basket books around *)
(* the mean premium and non-negative sensitivities.                        *)

\* basket mid-VWAPs from 15 below to 15 above the one of the mean premium
PremiumBooks == {BookAt(470 + 5 * j) : j \in -3..3} \cup {HalfBook(470)}

InitPremium ==
    /\ \E b \in PremiumBooks, alpha \in {Num(0), Rat(1, 2), Num(1)},
          beta \in {Num(0), Rat(1, 2), Num(1)} :
          /\ state = TradingState(0, EmptyBlob, [s \in Traded |-> 0],
                                  Market([QuietDepths EXCEPT
                                             !.GIFT_BASKET = b],
                                         ObservationFree))
          /\ objs = [NoObjs EXCEPT !.basket_trading =
                        BasketTrading(
                            state, config.PRODUCT.GIFT_BASKET,
                            [s \in {symbols[i] : i \in 5..7} |->
                                config.PRODUCT[s]],
                            [config.STRATEGY.GIFT_BASKET EXCEPT
                                !.LINEAR_SENSITIVITY = alpha,
                                !.QUADRATIC_SENSITIVITY = beta])]
    /\ timestamp = 0
    /\ position = [s \in Traded |-> 0]
    /\ data = <<>>
    /\ traderData = EmptyBlob
    /\ out = NoOut
    /\ prev = NoObj
    /\ calls = 0
    /\ focus = "GIFT_BASKET"
    /\ pc = "premium"

FairValue ==
    /\ pc = "premium"
    /\ objs' = [objs EXCEPT !.basket_trading = calculate_fair_value(@)]
    /\ pc' = "premium_done"
    /\ UNCHANGED <<timestamp, position, data, traderData, state, out, prev,
                   calls, focus>>

SpecPremium == InitPremium /\ [][FairValue]_vars

----------------------------------------------------------------------------
(* OTCArbitrage.market_make on its own, over a grid of external quotes,    *)
(* fees and tariffs.                                                       *)

OTCBids == {Rat(400 + j, 4) : j \in 0..4}

OTCTariffs == {Num(-5), Rat(-11, 10), Num(0), Num(1), Rat(9, 4)}

InitOTCQuote ==
    /\ \E b \in OTCBids, sp \in {Rat(1, 2), Num(1)},
          t \in {Rat(9, 10), Num(1)}, ex \in OTCTariffs, im \in OTCTariffs :
          state = TradingState(0, EmptyBlob, [s \in Traded |-> 0],
                               Market(QuietDepths,
                                      Observation(b, RAdd(b, sp), t, ex, im)))
    /\ objs = [NoObjs EXCEPT !.otc_arb =
                  OTCArbitrage(state, config.PRODUCT.ORCHIDS,
                               config.STRATEGY.ORCHIDS)]
    /\ timestamp = 0
    /\ position = [s \in Traded |-> 0]
    /\ data = <<>>
    /\ traderData = EmptyBlob
    /\ out = NoOut
    /\ prev = NoObj
    /\ calls = 0
    /\ focus = "ORCHIDS"
    /\ pc = "otc_unit"

OTCQuote ==
    /\ pc = "otc_unit"
    /\ objs' = [objs EXCEPT !.otc_arb = OTCArbitrage_market_make(@)]
    /\ pc' = "otc_unit_done"
    /\ UNCHANGED <<timestamp, position, data, traderData, state, out, prev,
                   calls, focus>>

SpecOTCQuote == InitOTCQuote /\ [][OTCQuote]_vars

----------------------------------------------------------------------------
(* The sub-strategies of one product, one step at a time: the object is    *)
(* constructed from a snapshot, then the steps of aggregate_orders,        *)
(* aggregate_orders_conversions or aggregate_basket_orders run in source   *)
(* order.  prev holds the object as it was before the last step.           *)

\* an external quote whose tariffs are subsidies: effective export cost -4,
\* import cost -4, so both edges can clear min_edge on an uncrossed book
ObservationSubsidy ==
    Observation(Num(100), Num(101), Num(1), Rat(-51, 10), Num(-5))

\* ORCHIDS books under ObservationSubsidy: edges 3 and 3, 4 and 2, 2 and 3
SubsidyBooks ==
    {Depth(<<<<100, 5>>, <<99, 5>>>>, <<<<101, -5>>, <<102, -5>>>>),
     Depth(<<<<99, 5>>, <<98, 5>>>>, <<<<100, -5>>, <<101, -5>>>>),
     Depth(<<<<100, 5>>, <<99, 5>>>>, <<<<102, -5>>, <<103, -5>>>>)}

\* books whose best level is at or through the reserve price, with and
\* without a level behind it
StepBooks(f) ==
    IF f = "AMETHYSTS"
    THEN {Depth(AmethystsQuiet.buy_orders, <<<<9998, -5>>>>),
          Depth(<<<<10000, 30>>, <<9995, 20>>>>, AmethystsQuiet.sell_orders)}
    ELSE IF f = "STARFRUIT"
    THEN {Depth(<<<<102, 1>>, <<92, 9>>>>, <<<<104, -5>>, <<110, -5>>>>),
          Depth(<<<<96, 5>>, <<90, 5>>>>, <<<<98, -1>>, <<108, -9>>>>),
          Depth(<<<<199, 30>>, <<197, 5>>>>, <<<<201, -30>>, <<203, -5>>>>)}
    ELSE IF f = "GIFT_BASKET"
    THEN {Depth(<<<<464, 5>>, <<460, 5>>>>, <<<<468, -1>>, <<478, -9>>>>),
          Depth(<<<<467, 5>>, <<466, 5>>>>, <<<<468, -30>>, <<471, -30>>>>),
          Depth(<<<<466, 60>>>>, <<<<470, -5>>, <<472, -5>>>>)}
    ELSE {}

StepMarkets(f) ==
    {m \in Markets(f) : \A i \in 1..7 : ~StrategyRaises(m, symbols[i])}
    \cup {Market([QuietDepths EXCEPT ![f] = b], ObservationFree) :
            b \in StepBooks(f)}
    \cup (IF f = "ORCHIDS"
          THEN {Market([QuietDepths EXCEPT !.ORCHIDS = b],
                       ObservationSubsidy) : b \in SubsidyBooks}
          ELSE {})

\* start-of-tick positions within the limit the sizing works with
StepPositions(f) ==
    IF f \in {"AMETHYSTS", "STARFRUIT"} THEN {-20, -15, -5, 0, 5, 15, 20}
    ELSE IF f = "ORCHIDS" THEN {-100, -50, 0, 50, 100}
    ELSE {-58, -30, 0, 30, 58}

\* the strategy objects run constructs for the snapshot st; the STARFRUIT
\* object after predict_price on the window of a first tick
Construct(st) ==
    [fixed_mm |->
        MarketMaking(st, config.PRODUCT.AMETHYSTS, config.STRATEGY.AMETHYSTS),
     lr_mm |->
        With(LinearRegressionMM(st, config.PRODUCT.STARFRUIT,
                                config.STRATEGY.STARFRUIT), LAMBDA lr0 :
            predict_price(lr0, store_data(<<>>, lr0.mid_vwap,
                                          lr0.max_window_size))),
     otc_arb |->
        OTCArbitrage(st, config.PRODUCT.ORCHIDS, config.STRATEGY.ORCHIDS),
     basket_trading |->
        BasketTrading(st, config.PRODUCT.GIFT_BASKET,
                      [s \in {symbols[i] : i \in 5..7} |->
                          config.PRODUCT[s]],
                      config.STRATEGY.GIFT_BASKET)]

\* the object of the product under study
Unit ==
    IF focus = "AMETHYSTS" THEN objs.fixed_mm
    ELSE IF focus = "STARFRUIT" THEN objs.lr_mm
    ELSE IF focus = "ORCHIDS" THEN objs.otc_arb
    ELSE objs.basket_trading.basket

SetUnit(u) ==
    IF focus = "AMETHYSTS" THEN [objs EXCEPT !.fixed_mm = u]
    ELSE IF focus = "STARFRUIT" THEN [objs EXCEPT !.lr_mm = u]
    ELSE IF focus = "ORCHIDS" THEN [objs EXCEPT !.otc_arb = u]
    ELSE [objs EXCEPT !.basket_trading.basket = u]

InitSteps ==
    /\ focus \in Traded
    /\ \E p \in StepPositions(focus), m \in StepMarkets(focus) :
          /\ position = [s \in Traded |-> IF s = focus THEN p ELSE 0]
          /\ state = TradingState(0, EmptyBlob, position, m)
          /\ objs = Construct(state)
    /\ timestamp = 0
    /\ data = <<>>
    /\ traderData = EmptyBlob
    /\ out = NoOut
    /\ prev = NoObj
    /\ calls = 0
    /\ pc = "new"

StepTo(next_pc, os) ==
    /\ objs' = os
    /\ prev' = Unit
    /\ pc' = next_pc
    /\ UNCHANGED <<timestamp, position, data, traderData, state, out, calls,
                   focus>>

StepFairValue ==
    /\ pc = "new"
    /\ focus = "GIFT_BASKET"
    /\ StepTo("fair_value",
              [objs EXCEPT !.basket_trading = calculate_fair_value(@)])

StepScratch ==
    /\ \/ pc = "new" /\ focus \in {"AMETHYSTS", "STARFRUIT"}
       \/ pc = "fair_value"
    /\ StepTo("scratch",
              SetUnit(scratch_under_valued(Unit, focus = "GIFT_BASKET")))

StepStopLoss ==
    /\ pc = "scratch"
    /\ StepTo("stop_loss",
              IF focus = "GIFT_BASKET"
              THEN [objs EXCEPT !.basket_trading = aggressive_stop_loss(@)]
              ELSE SetUnit(stop_loss(Unit, TRUE)))

StepMarketMake ==
    /\ pc = "stop_loss"
    /\ StepTo("market_make", SetUnit(market_make(Unit)))

StepEnter ==
    /\ pc = "new"
    /\ focus = "ORCHIDS"
    /\ StepTo("enter", SetUnit(arbitrage_exchange_enter(Unit)))

StepOTCMarketMake ==
    /\ pc = "enter"
    /\ StepTo("market_make", SetUnit(OTCArbitrage_market_make(Unit)))

StepExit ==
    /\ pc = "market_make"
    /\ focus = "ORCHIDS"
    /\ StepTo("exit", SetUnit(arbitrage_otc_exit(Unit)))

\* the quoting products with other values of ORDER_SKEW
WithSkew(os, f, k) ==
    IF f = "AMETHYSTS" THEN [os EXCEPT !.fixed_mm.order_skew = k]
    ELSE IF f = "STARFRUIT" THEN [os EXCEPT !.lr_mm.order_skew = k]
    ELSE [os EXCEPT !.basket_trading.basket.order_skew = k]

InitSkew ==
    /\ focus \in {"AMETHYSTS", "STARFRUIT", "GIFT_BASKET"}
    /\ \E p \in StepPositions(focus), m \in StepMarkets(focus),
          k \in {Num(0), Rat(1, 4), Rat(1, 2), Num(1), Rat(3, 2)} :
          /\ position = [s \in Traded |-> IF s = focus THEN p ELSE 0]
          /\ state = TradingState(0, EmptyBlob, position, m)
          /\ objs = WithSkew(Construct(state), focus, k)
    /\ timestamp = 0
    /\ data = <<>>
    /\ traderData = EmptyBlob
    /\ out = NoOut
    /\ prev = NoObj
    /\ calls = 0
    /\ pc = "new"

NextSkew ==
    \/ StepFairValue
    \/ StepScratch
    \/ StepStopLoss
    \/ StepMarketMake

SpecSkew == InitSkew /\ [][NextSkew]_vars

NextSteps ==
    \/ StepFairValue
    \/ StepScratch
    \/ StepStopLoss
    \/ StepMarketMake
    \/ StepEnter
    \/ StepOTCMarketMake
    \/ StepExit

SpecSteps == InitSteps /\ [][NextSteps]_vars

----------------------------------------------------------------------------
(* Properties *)

RECURSIVE SumBuys(_)
SumBuys(orders) ==
    IF orders = <<>> THEN 0
    ELSE Max2(Head(orders).quantity, 0) + SumBuys(Tail(orders))

RECURSIVE SumSells(_)
SumSells(orders) ==
    IF orders = <<>> THEN 0
    ELSE Min2(Head(orders).quantity, 0) + SumSells(Tail(orders))

\* the limit the sizing of a product works with
EffectiveLimit(s) ==
    IF s = "GIFT_BASKET" THEN objs.basket_trading.basket_limit
    ELSE config.PRODUCT[s].POSITION_LIMIT

\* mid-VWAP of a book, from the host's maps
MidVwap(depth) ==
    RDiv(RAdd(Rat(Sweep(depth.buy_orders), SumQty(depth.buy_orders)),
              Rat(Sweep(depth.sell_orders), SumQty(depth.sell_orders))),
         Num(2))

\* C1: in every tick and for every traded product whose start-of-tick
\* position is within its (effective) limit, position plus all buy
\* quantities is at most the limit and position plus all sell quantities is
\* at least minus the limit.
C1_OrdersWithinLimit ==
    pc = "ran" =>
        \A s \in Traded :
            LET L == EffectiveLimit(s)
                p == state.position[s]
            IN  (-L <= p /\ p <= L) =>
                    /\ p + SumBuys(out.result[s]) <= L
                    /\ p + SumSells(out.result[s]) >= -L

\* a tick whose taking buy and bid quote together use the whole limit
C1_Witness ==
    /\ pc = "ran"
    /\ Len(out.result[focus]) >= 3
    /\ out.result[focus][1].quantity > 0
    /\ state.position[focus] + SumBuys(out.result[focus])
           = EffectiveLimit(focus)

\* C2: over any sequence of ticks from position 0, with the host filling
\* any part of the returned orders and applying the returned conversion,
\* the true position of every product stays within its position limit.
C2_PositionWithinLimit ==
    \A s \in Traded :
        /\ -config.PRODUCT[s].POSITION_LIMIT <= position[s]
        /\ position[s] <= config.PRODUCT[s].POSITION_LIMIT

\* C3 as stated: for every fair value and every half-spread >= 0 the quotes
\* of market_make satisfy bid_price <= fair_value <= ask_price.
C3_QuotesNeverCross ==
    pc = "unit_done" =>
        LET mm == objs.fixed_mm
            n == Len(mm.orders)
        IN  /\ RLe(Num(mm.orders[n - 1].price), mm.fair_value)
            /\ RLe(mm.fair_value, Num(mm.orders[n].price))

\* C3 amended: for every fair value and every half-spread >= 1 the quotes
\* of market_make satisfy bid_price <= fair_value <= ask_price.
C3_QuotesNeverCrossWideSpread ==
    (pc = "unit_done" /\ RLe(Num(1), objs.fixed_mm.mm_spread)) =>
        LET mm == objs.fixed_mm
            n == Len(mm.orders)
        IN  /\ RLe(Num(mm.orders[n - 1].price), mm.fair_value)
            /\ RLe(mm.fair_value, Num(mm.orders[n].price))

\* quotes around a fair value that is not an integer, half-spread 1
C3_Witness ==
    /\ pc = "unit_done"
    /\ objs.fixed_mm.mm_spread = Num(1)
    /\ objs.fixed_mm.fair_value.d # 1
    /\ Len(objs.fixed_mm.orders) = 2

ObservationOf(st) == st.observations.conversionObservations.ORCHIDS

\* the two one-way edges of ORCHIDS, from the host's snapshot
LongEdgeOf(st) ==
    LET o == ObservationOf(st)
    IN  RSub(RSub(o.bidPrice,
                  Num(MinOf(Keys(st.order_depths.ORCHIDS.sell_orders)))),
             RAdd(RAdd(o.transportFees, o.exportTariff),
                  RMul(config.STRATEGY.ORCHIDS.EXP_STORAGE_TIME,
                       config.PRODUCT.ORCHIDS.COST_STORING)))

ShortEdgeOf(st) ==
    LET o == ObservationOf(st)
    IN  RSub(RSub(Num(MaxOf(Keys(st.order_depths.ORCHIDS.buy_orders))),
                  o.askPrice),
             RAdd(o.transportFees, o.importTariff))

LongChosen(st) ==
    /\ RLe(ShortEdgeOf(st), LongEdgeOf(st))
    /\ RLe(config.STRATEGY.ORCHIDS.MIN_EDGE, LongEdgeOf(st))

NoneChosen(st) ==
    /\ RLt(LongEdgeOf(st), config.STRATEGY.ORCHIDS.MIN_EDGE)
    /\ RLt(ShortEdgeOf(st), config.STRATEGY.ORCHIDS.MIN_EDGE)

BestAskOf(st) == MinOf(Keys(st.order_depths.ORCHIDS.sell_orders))

RestingAtBestAsk(st) ==
    -Get(st.order_depths.ORCHIDS.sell_orders, BestAskOf(st))

\* C4 as stated: when the long edge is the larger one and clears min_edge,
\* the first order is a buy at the best ask of size
\* min(resting quantity, limit - position); when both edges are below
\* min_edge no take order is emitted.
C4_TakesBestAskToLimit ==
    pc = "ran" =>
        /\ LongChosen(state) =>
              out.result.ORCHIDS[1] =
                  Order("ORCHIDS", BestAskOf(state),
                        Min2(RestingAtBestAsk(state),
                             config.PRODUCT.ORCHIDS.POSITION_LIMIT
                                 - state.position.ORCHIDS))
        /\ NoneChosen(state) => Len(out.result.ORCHIDS) = 2

\* C4 amended: when the long edge is the larger one and clears min_edge,
\* the first order is a buy at the best ask of size
\* max(min(resting quantity, limit - max(position, 0)), 0); when both edges
\* are below min_edge no take order is emitted.
C4_TakesBestAskCapped ==
    pc = "ran" =>
        /\ LongChosen(state) =>
              out.result.ORCHIDS[1] =
                  Order("ORCHIDS", BestAskOf(state),
                        Max2(Min2(RestingAtBestAsk(state),
                                  config.PRODUCT.ORCHIDS.POSITION_LIMIT
                                      - Max2(state.position.ORCHIDS, 0)),
                             0))
        /\ NoneChosen(state) => Len(out.result.ORCHIDS) = 2

\* a long take from a short position at a best ask that rests more than the
\* limit
C4_Witness ==
    /\ pc = "ran"
    /\ LongChosen(state)
    /\ state.position.ORCHIDS < 0
    /\ RestingAtBestAsk(state) > config.PRODUCT.ORCHIDS.POSITION_LIMIT
    /\ out.result.ORCHIDS[1].price = 95
    /\ out.result.ORCHIDS[1].quantity = config.PRODUCT.ORCHIDS.POSITION_LIMIT

\* C5: in every tick the returned conversion request equals minus the
\* start-of-tick ORCHIDS position, whatever orders were emitted.
C5_ConversionClosesPosition ==
    pc = "ran" => state.position.ORCHIDS + out.conversions = 0

\* a tick that starts with an ORCHIDS position and takes from the exchange
C5_Witness ==
    /\ pc = "ran"
    /\ state.position.ORCHIDS # 0
    /\ Len(out.result.ORCHIDS) >= 3
    /\ out.result.ORCHIDS[1].quantity # 0
    /\ out.conversions = -state.position.ORCHIDS

\* C6: whenever the window read by predict_price is shorter than
\* MIN_WINDOW_SIZE, the fair value of the tick is the current mid-VWAP and
\* the quotes are priced from it.
C6_FallbackIsMidVwap ==
    (objs.lr_mm.symbol = "STARFRUIT"
     /\ Len(data) < config.STRATEGY.STARFRUIT.MIN_WINDOW_SIZE) =>
        LET lr == objs.lr_mm
            mid == MidVwap(state.order_depths.STARFRUIT)
            n == Len(lr.orders)
        IN  /\ lr.fair_value = mid
            /\ lr.orders[n - 1].price
                   = Ceil(RSub(mid, config.STRATEGY.STARFRUIT.MM_SPREAD))
            /\ lr.orders[n].price
                   = Floor(RAdd(mid, config.STRATEGY.STARFRUIT.MM_SPREAD))

\* a tick whose window holds one value less than the minimum
C6_Witness ==
    /\ pc = "ran"
    /\ Len(data) = config.STRATEGY.STARFRUIT.MIN_WINDOW_SIZE - 1
    /\ objs.lr_mm.fair_value = MidVwap(state.order_depths.STARFRUIT)

IsLine(w) ==
    \A i \in 2..(Len(w) - 1) : RSub(w[i + 1], w[i]) = RSub(w[2], w[1])

\* C7: when the window (length >= MIN_WINDOW_SIZE) lies exactly on a
\* straight line, the fair value is the next value on that line; a constant
\* window gives that constant.
C7_LinearExtrapolation ==
    (objs.lr_mm.symbol = "STARFRUIT"
     /\ Len(data) >= config.STRATEGY.STARFRUIT.MIN_WINDOW_SIZE
     /\ IsLine(data)) =>
        objs.lr_mm.fair_value
            = RAdd(data[Len(data)], RSub(data[2], data[1]))

\* the window 100, 200, 300, 400, 500 gives 600
C7_Witness ==
    /\ pc = "ran"
    /\ data = <<Num(100), Num(200), Num(300), Num(400), Num(500)>>
    /\ objs.lr_mm.fair_value = Num(600)

\* basket premium of a snapshot: basket mid-VWAP minus net asset value
PremiumOf(st) ==
    RSub(MidVwap(st.order_depths.GIFT_BASKET),
         RSum([i \in 1..3 |->
                 RMul(Num(config.PRODUCT[symbols[4 + i]].PER_BASKET),
                      MidVwap(st.order_depths[symbols[4 + i]]))]))

\* C8: when the basket premium equals PREMIUM_MEAN, the basket fair value
\* equals the basket mid-VWAP.
C8_ZeroCorrectionAtMean ==
    (pc = "ran" /\ PremiumOf(state) = config.STRATEGY.GIFT_BASKET.PREMIUM_MEAN)
        => objs.basket_trading.basket.fair_value
               = MidVwap(state.order_depths.GIFT_BASKET)

\* a basket tick at the mean premium whose fair value stays at the mid-VWAP
C8_Witness ==
    /\ pc = "ran"
    /\ focus = "GIFT_BASKET"
    /\ PremiumOf(state) = config.STRATEGY.GIFT_BASKET.PREMIUM_MEAN
    /\ objs.basket_trading.basket.fair_value = Num(470)
    /\ Len(objs.basket_trading.basket.orders) >= 2

\* C9: two calls of Trader.run in a row with the identical TradingState
\* return identical order maps and conversions.
C9_Idempotent ==
    (pc = "ran" /\ calls >= 2) =>
        /\ out.result = prev.result
        /\ out.conversions = prev.conversions

\* C10: Trader.run returns an order map and a conversion value for every
\* snapshot, also when a book has an empty side; it never raises.
C10_NeverRaises == out.status # "exception"

\* the window run leaves when it starts from the decoded carried state
RestoredWindow(blob, st) ==
    store_data(jsonpickle_decode(blob), MidVwap(st.order_depths.STARFRUIT),
               config.STRATEGY.STARFRUIT.MAX_WINDOW_SIZE)

----------------------------------------------------------------------------
(* store_data on its own, for windows and sizes around MAX_WINDOW_SIZE,    *)
(* next to the ticks of SpecHistory.                                       *)

StoreWindows ==
    {[i \in 1..k |-> Num(100 * i)] :
        k \in 0..(config.STRATEGY.STARFRUIT.MAX_WINDOW_SIZE + 2)}

InitStore ==
    /\ data \in StoreWindows
    /\ \E max_size \in 1..(config.STRATEGY.STARFRUIT.MAX_WINDOW_SIZE + 2) :
          objs = [max_size |-> max_size, value |-> Num(50)]
    /\ timestamp = 0
    /\ position = [s \in Traded |-> 0]
    /\ traderData = EmptyBlob
    /\ state = NoState
    /\ out = NoOut
    /\ prev = NoOut
    /\ calls = 0
    /\ focus = "STARFRUIT"
    /\ pc = "store"

Store ==
    /\ pc = "store"
    /\ data' = store_data(data, objs.value, objs.max_size)
    /\ pc' = "stored"
    /\ UNCHANGED <<timestamp, position, traderData, state, out, prev, objs,
                   calls, focus>>

SpecWindow ==
    (InitHistory \/ InitStore) /\ [][NextHistory \/ Store]_vars

----------------------------------------------------------------------------

\* C11: a tick with timestamp >= 100 that starts with an empty in-memory
\* window and the carried state of the previous tick decodes that state:
\* the window read by the regression is the previous history plus the
\* current mid-VWAP.
C11_RestoresLostData ==
    [][(/\ pc = "idle"
        /\ pc' = "ran"
        /\ timestamp >= 100
        /\ data = <<>>
        /\ ~DecodeRaises(traderData))
       => data' = RestoredWindow(traderData, state')]_vars

\* C12: at a tick with timestamp >= 100 whose traderData is absent, empty
\* or unparseable, run does not fail: it returns the orders of every
\* product, and the window is the empty one plus the current mid-VWAP.
C12_LostBlobResets ==
    (/\ pc \in {"ran", "failed"}
     /\ state.timestamp >= 100
     /\ DecodeRaises(state.traderData))
    => /\ out.status = "ok"
       /\ DOMAIN out.result = Traded
       /\ data = <<MidVwap(state.order_depths.STARFRUIT)>>

\* C13: the first call of run at timestamp 0 does not decode traderData,
\* does not fail, returns the orders of every product, and leaves the
\* window holding exactly the current mid-VWAP.
C13_FirstTickStartsEmpty ==
    (/\ pc \in {"ran", "failed"}
     /\ state.timestamp = 0
     /\ calls = 1)
    => /\ out.status = "ok"
       /\ DOMAIN out.result = Traded
       /\ data = <<MidVwap(state.order_depths.STARFRUIT)>>

Emitted == SubSeq(Unit.orders, Len(prev.orders) + 1, Len(Unit.orders))

\* C16: every order a sub-strategy emits has the sign of its side.  A take
\* (scratch, stop loss, arbitrage enter) at a bid price is a sell with
\* quantity <= 0 and a take at an ask price is a buy with quantity >= 0;
\* the quoting step emits a bid quote with quantity >= 0 followed by an ask
\* quote with quantity <= 0.
C16_SignsMatchSides ==
    /\ pc \in {"scratch", "stop_loss", "enter"} =>
          \A i \in DOMAIN Emitted :
             \/ Emitted[i].price \in Keys(Unit.bids) /\ Emitted[i].quantity <= 0
             \/ Emitted[i].price \in Keys(Unit.asks) /\ Emitted[i].quantity >= 0
    /\ pc = "market_make" =>
          /\ Len(Emitted) = 2
          /\ Emitted[1].quantity >= 0
          /\ Emitted[2].quantity <= 0

\* a stop-loss sell of a long STARFRUIT position went out with a negative
\* quantity
C16_Witness ==
    /\ pc = "stop_loss"
    /\ focus = "STARFRUIT"
    /\ prev.position > prev.sl_inventory
    /\ Len(Emitted) = 1
    /\ Emitted[1].price = Unit.best_bid
    /\ Emitted[1].quantity < 0

\* the signed sum of the quantities of a list of orders
SignedSum(orders) == SumBuys(orders) + SumSells(orders)

\* the orders of the taking steps: all orders but the two quotes once the
\* quoting step has run
TakingOrders ==
    IF pc \in {"market_make", "exit"}
    THEN SubSeq(Unit.orders, 1, Len(Unit.orders) - 2)
    ELSE Unit.orders

\* C17 as stated: after every step, the quoting step included,
\* expected_position equals the start-of-tick position plus the signed sum
\* of all orders emitted so far in the tick.
C17_ExpectedTracksAllOrders ==
    Unit.expected_position = Unit.position + SignedSum(Unit.orders)

\* C17 amended: after each taking step expected_position equals the
\* start-of-tick position plus the signed sum of all orders emitted so far;
\* the quoting step appends its two quotes and leaves expected_position as
\* it was, so from then on it equals the position plus the signed sum of the
\* taking orders only.
C17_ExpectedTracksTakes ==
    /\ Unit.expected_position = Unit.position + SignedSum(TakingOrders)
    /\ pc = "market_make" =>
          /\ Len(Emitted) = 2
          /\ Unit.expected_position = prev.expected_position

\* the quoting step has run after a take, and its two quotes do not cancel
C17_Witness ==
    /\ pc = "market_make"
    /\ SignedSum(TakingOrders) # 0
    /\ SignedSum(Emitted) # 0
    /\ Unit.expected_position # Unit.position + SignedSum(Unit.orders)

\* C18: every level arbitrage_exchange_enter takes, long or short, is taken
\* at its own price and for at most its resting quantity: the i-th order
\* of the step is priced at the i-th level of the chosen side and is no
\* larger than what rests there, so no price is taken for more than it
\* holds.
C18_TakesAtOwnLevel ==
    pc = "enter" =>
       /\ \/ \A i \in DOMAIN Emitted :
                /\ i <= Len(Unit.asks)
                /\ Emitted[i].price = Unit.asks[i][1]
                /\ 0 <= Emitted[i].quantity
                /\ Emitted[i].quantity <= -Unit.asks[i][2]
          \/ \A i \in DOMAIN Emitted :
                /\ i <= Len(Unit.bids)
                /\ Emitted[i].price = Unit.bids[i][1]
                /\ Emitted[i].quantity <= 0
                /\ -Emitted[i].quantity <= Unit.bids[i][2]
       /\ \A p \in Keys(Unit.bids) :
             -SignedSum(SelectSeq(Emitted, LAMBDA o : o.price = p))
                <= Get(Unit.bids, p)
       /\ \A p \in Keys(Unit.asks) :
             SignedSum(SelectSeq(Emitted, LAMBDA o : o.price = p))
                <= -Get(Unit.asks, p)

\* C19: arbitrage_exchange_enter takes on one side at most.  When the long
\* edge is at least the short edge and at least min_edge it only buys at
\* ask levels; when the short edge is strictly larger and at least min_edge
\* it only sells at bid levels; otherwise it emits nothing.  It never emits
\* buys and sells together, also when both edges clear min_edge, and every
\* price it takes has an edge of at least min_edge.
C19_OneSideLargerEdge ==
    pc = "enter" =>
       LET ShortChosen(st) ==
               /\ RLt(LongEdgeOf(st), ShortEdgeOf(st))
               /\ RLe(config.STRATEGY.ORCHIDS.MIN_EDGE, ShortEdgeOf(st))
       IN
       /\ LongChosen(state) =>
             /\ Len(Emitted) >= 1
             /\ \A i \in DOMAIN Emitted :
                   /\ Emitted[i].price \in Keys(Unit.asks)
                   /\ Emitted[i].quantity >= 0
                   /\ RLe(Unit.min_edge, LongEdge(Unit, Emitted[i].price))
       /\ ShortChosen(state) =>
             /\ Len(Emitted) >= 1
             /\ \A i \in DOMAIN Emitted :
                   /\ Emitted[i].price \in Keys(Unit.bids)
                   /\ Emitted[i].quantity <= 0
                   /\ RLe(Unit.min_edge, ShortEdge(Unit, Emitted[i].price))
       /\ (~LongChosen(state) /\ ~ShortChosen(state)) => Emitted = <<>>
       /\ ~(/\ \E i \in DOMAIN Emitted : Emitted[i].quantity > 0
            /\ \E i \in DOMAIN Emitted : Emitted[i].quantity < 0)

\* both edges clear min_edge and are equal, and the step bought
C19_Witness ==
    /\ pc = "enter"
    /\ LongEdgeOf(state) = ShortEdgeOf(state)
    /\ RLe(config.STRATEGY.ORCHIDS.MIN_EDGE, ShortEdgeOf(state))
    /\ Len(Emitted) >= 1
    /\ Emitted[1].quantity > 0
    /\ Unit.sum_sell_qty = 0

\* C20: scratch_under_valued emits at most one order and only with the
\* position inside [-sl_inventory, sl_inventory]: a sell at the best bid
\* only if the best bid is at or above the reserve price and the bid side
\* has two levels or more, otherwise a buy at the best ask only if the best
\* ask is at or below the reserve price and the ask side has two levels or
\* more; the order is no larger than what rests at the touched level.
C20_ScratchOnlyWithDepth ==
    pc = "scratch" =>
       LET reserve_price == IF focus = "GIFT_BASKET" THEN prev.mid_vwap
                            ELSE prev.fair_value
           sell_open == /\ RLe(reserve_price, Num(prev.best_bid))
                        /\ Len(prev.bids) >= 2
       IN
       /\ Len(Emitted) <= 1
       /\ Len(Emitted) = 1 =>
             /\ -prev.sl_inventory <= prev.position
             /\ prev.position <= prev.sl_inventory
             /\ \/ /\ sell_open
                   /\ Emitted[1].price = prev.best_bid
                   /\ Emitted[1].quantity <= 0
                   /\ -Emitted[1].quantity <= Get(prev.bids, prev.best_bid)
                \/ /\ ~sell_open
                   /\ RLe(Num(prev.best_ask), reserve_price)
                   /\ Len(prev.asks) >= 2
                   /\ Emitted[1].price = prev.best_ask
                   /\ Emitted[1].quantity >= 0
                   /\ Emitted[1].quantity <= -Get(prev.asks, prev.best_ask)

\* a scratch buy went out at a best ask below the reserve price, for no
\* more than rests there, while the best bid was below the reserve price
C20_Witness ==
    /\ pc = "scratch"
    /\ Len(Emitted) = 1
    /\ Emitted[1].price = prev.best_ask
    /\ Emitted[1].quantity > 0
    /\ Len(prev.asks) >= 2
    /\ RLt(Num(prev.best_bid),
           IF focus = "GIFT_BASKET" THEN prev.mid_vwap ELSE prev.fair_value)

\* C21: stop_loss emits at most one order, and only with the position
\* strictly outside [-sl_inventory, sl_inventory] and the best price of the
\* side it hits within sl_spread of the fair value.  A long position sells
\* at the best bid, a short one buys at the best ask; the size is the lesser
\* of the quantity resting there and the distance back to the band edge, so
\* the expected position stays on or outside the edge it came from.
C21_StopLossBackToBand ==
    (pc = "stop_loss" /\ focus # "GIFT_BASKET") =>
       /\ Len(Emitted) <= 1
       /\ Len(Emitted) = 1 =>
             \/ /\ prev.position > prev.sl_inventory
                /\ RLe(RSub(prev.fair_value, prev.sl_spread),
                       Num(prev.best_bid))
                /\ Emitted[1].price = prev.best_bid
                /\ -Emitted[1].quantity
                      = Min2(Get(prev.bids, prev.best_bid),
                             prev.position - prev.sl_inventory)
                /\ Unit.expected_position >= prev.sl_inventory
             \/ /\ prev.position < -prev.sl_inventory
                /\ RLe(Num(prev.best_ask),
                       RAdd(prev.fair_value, prev.sl_spread))
                /\ Emitted[1].price = prev.best_ask
                /\ Emitted[1].quantity
                      = Min2(-Get(prev.asks, prev.best_ask),
                             -prev.sl_inventory - prev.position)
                /\ Unit.expected_position <= -prev.sl_inventory

\* a short STARFRUIT position bought back exactly to the band edge
C21_Witness ==
    /\ pc = "stop_loss"
    /\ focus = "STARFRUIT"
    /\ prev.position < -prev.sl_inventory
    /\ Len(Emitted) = 1
    /\ Emitted[1].quantity > 0
    /\ Unit.expected_position = -prev.sl_inventory

\* C22: the inventory skew of market_make shrinks only the side that would
\* add to the inventory.  With expected_position > 0 the ask quantity is
\* the full four-way ask capacity and the bid quantity is
\* max(bid capacity - ceil(order_skew * expected_position), 0); with
\* expected_position < 0 the bid quantity is the full bid capacity and the
\* ask quantity is the capacity shrunk by floor(order_skew *
\* expected_position); a quote never exceeds its capacity and never
\* changes sign.
C22_SkewShrinksAddingSide ==
    (pc = "market_make" /\ focus # "ORCHIDS") =>
       LET e == prev.expected_position
           skew == RMul(prev.order_skew, Num(e))
           bid == Emitted[1].quantity
           ask == Emitted[2].quantity
       IN  /\ e > 0 => /\ ask = AskLimit(prev)
                       /\ bid = Max2(BidLimit(prev) - Ceil(skew), 0)
           /\ e < 0 => /\ bid = BidLimit(prev)
                       /\ ask = Min2(AskLimit(prev) - Floor(skew), 0)
           /\ e = 0 => bid = BidLimit(prev) /\ ask = AskLimit(prev)
           /\ 0 <= bid /\ bid <= BidLimit(prev)
           /\ AskLimit(prev) <= ask /\ ask <= 0

\* a long expected position after a take, a fractional skew: the ask is
\* quoted at full capacity and the bid is shrunk but not to zero
C22_Witness ==
    /\ pc = "market_make"
    /\ focus # "ORCHIDS"
    /\ prev.expected_position > 0
    /\ prev.expected_position # prev.position
    /\ prev.order_skew.d # 1
    /\ Emitted[2].quantity = AskLimit(prev)
    /\ Emitted[2].quantity < 0
    /\ 0 < Emitted[1].quantity
    /\ Emitted[1].quantity < BidLimit(prev)

\* the arbitrage-free prices of the external venue, from the host's
\* snapshot: what a unit sold there nets and what a unit bought there costs
BidArbFreeOf(st) ==
    LET o == ObservationOf(st)
    IN  RSub(o.bidPrice,
             RAdd(RAdd(o.transportFees, o.exportTariff),
                  RMul(config.STRATEGY.ORCHIDS.EXP_STORAGE_TIME,
                       config.PRODUCT.ORCHIDS.COST_STORING)))

AskArbFreeOf(st) ==
    LET o == ObservationOf(st)
    IN  RAdd(o.askPrice, RAdd(o.transportFees, o.importTariff))

\* C23: OTCArbitrage.market_make quotes outside the arbitrage-free prices
\* by the safety margin or more: bid_price <= external bid - effective
\* export cost - mm_edge and ask_price >= external ask + import cost +
\* mm_edge, for every external quote and every cost.
C23_QuotesOutsideArbFree ==
    pc = "otc_unit_done" =>
       /\ Len(objs.otc_arb.orders) = 2
       /\ RLe(Num(objs.otc_arb.orders[1].price),
              RSub(BidArbFreeOf(state), config.STRATEGY.ORCHIDS.MM_EDGE))
       /\ RLe(RAdd(AskArbFreeOf(state), config.STRATEGY.ORCHIDS.MM_EDGE),
              Num(objs.otc_arb.orders[2].price))

\* the margin-adjusted prices are not integers and both quotes are rounded
\* away from the external venue
C23_Witness ==
    /\ pc = "otc_unit_done"
    /\ RLt(Num(objs.otc_arb.orders[1].price),
           RSub(BidArbFreeOf(state), config.STRATEGY.ORCHIDS.MM_EDGE))
    /\ RLt(RAdd(AskArbFreeOf(state), config.STRATEGY.ORCHIDS.MM_EDGE),
           Num(objs.otc_arb.orders[2].price))
    /\ objs.otc_arb.orders[1].quantity > 0

\* min(configured basket limit, floor(min over the constituents of
\* limit / units per basket)), from the configuration
BasketEffectiveLimit ==
    LET c == config.PRODUCT
        per(sym) == Rat(c[sym].POSITION_LIMIT, c[sym].PER_BASKET)
        least == RMin2(per("CHOCOLATE"),
                       RMin2(per("STRAWBERRIES"), per("ROSES")))
    IN  Min2(c.GIFT_BASKET.POSITION_LIMIT, Floor(least))

\* C24: the effective limit of the basket is min(configured limit,
\* floor(min over constituents of limit / units per basket)), 58 as
\* shipped, and every sizing step of the basket works with it and not with
\* the configured 60: the scratch order is capped by the distance from the
\* position to 58, the quotes by the four-way capacity on 58, and the
\* orders of the tick never add up to a position beyond 58 either way.
C24_BasketUsesEffectiveLimit ==
    (focus = "GIFT_BASKET" /\ pc \in {"new", "fair_value", "scratch",
                                      "stop_loss", "market_make"}) =>
       LET L == BasketEffectiveLimit
           capped == [prev EXCEPT !.position_limit = L]
       IN  /\ L = 58
           /\ L < config.PRODUCT.GIFT_BASKET.POSITION_LIMIT
           /\ objs.basket_trading.basket_limit = L
           /\ Unit.position_limit = L
           /\ pc = "scratch" => Unit = scratch_under_valued(capped, TRUE)
           /\ pc = "market_make" => Unit = market_make(capped)
           /\ pc = "scratch" =>
                 \A i \in DOMAIN Emitted :
                    /\ Emitted[i].quantity <= L - Max2(prev.position, 0)
                    /\ Emitted[i].quantity >= -L - Min2(prev.position, 0)
           /\ Unit.position + SumBuys(Unit.orders) <= L
           /\ Unit.position + SumSells(Unit.orders) >= -L

\* a scratch buy cut to the 28 that were left to 58, where 30 rested, and
\* then a bid quote of zero
C24_Witness ==
    /\ focus = "GIFT_BASKET"
    /\ pc = "market_make"
    /\ Len(Unit.orders) = 3
    /\ Unit.orders[1].quantity = BasketEffectiveLimit - Unit.position
    /\ Unit.orders[1].quantity < -Get(Unit.asks, Unit.best_ask)
    /\ Unit.orders[2].quantity = 0

\* C25: aggressive_stop_loss emits an order exactly when the basket
\* position is strictly outside [-sl_inventory, sl_inventory], whatever the
\* prices and the depth.  It is one order at the worst price of the side it
\* hits, sized by the lesser of the side's total resting volume and the
\* distance from the position to the target (sl_target when long,
\* -sl_target when short), so the expected position does not pass the
\* target.
C25_AggressiveToTarget ==
    (pc = "stop_loss" /\ focus = "GIFT_BASKET") =>
       LET sl_target == config.STRATEGY.GIFT_BASKET.SL_TARGET
           long == prev.position > prev.sl_inventory
           short == prev.position < -prev.sl_inventory
       IN  /\ Len(Emitted) = (IF long \/ short THEN 1 ELSE 0)
           /\ long =>
                 /\ Emitted[1].price = MinOf(Keys(prev.bids))
                 /\ -Emitted[1].quantity
                       = Min2(SumQty(prev.bids), prev.position - sl_target)
                 /\ Unit.expected_position >= sl_target
           /\ short =>
                 /\ Emitted[1].price = MaxOf(Keys(prev.asks))
                 /\ Emitted[1].quantity
                       = Min2(-SumQty(prev.asks), -sl_target - prev.position)
                 /\ Unit.expected_position <= -sl_target

\* a long basket sold at the worst bid, below the best bid, for the whole
\* bid side, which is less than the distance to the target
C25_Witness ==
    /\ pc = "stop_loss"
    /\ focus = "GIFT_BASKET"
    /\ prev.position > prev.sl_inventory
    /\ Len(Emitted) = 1
    /\ Emitted[1].price = prev.worst_bid
    /\ Emitted[1].price < prev.best_bid
    /\ -Emitted[1].quantity = prev.bid_volume
    /\ Unit.expected_position > config.STRATEGY.GIFT_BASKET.SL_TARGET

\* C26: with non-negative sensitivities the fair-value correction never
\* has the sign of the demeaned premium: a premium above the mean leaves
\* the basket fair value at or below the basket mid-VWAP, a premium below
\* the mean leaves it at or above.
C26_CorrectionOpposesPremium ==
    pc = "premium_done" =>
       LET mean == config.STRATEGY.GIFT_BASKET.PREMIUM_MEAN
           mid == MidVwap(state.order_depths.GIFT_BASKET)
           fair_value == objs.basket_trading.basket.fair_value
       IN  /\ RLt(mean, PremiumOf(state)) => RLe(fair_value, mid)
           /\ RLt(PremiumOf(state), mean) => RLe(mid, fair_value)
           /\ PremiumOf(state) = mean => fair_value = mid

\* a premium above the mean, both sensitivities positive, and a fair value
\* strictly below the mid-VWAP
C26_Witness ==
    /\ pc = "premium_done"
    /\ RLt(config.STRATEGY.GIFT_BASKET.PREMIUM_MEAN, PremiumOf(state))
    /\ RLt(Num(0), objs.basket_trading.alpha)
    /\ RLt(Num(0), objs.basket_trading.beta)
    /\ RLt(objs.basket_trading.basket.fair_value,
           MidVwap(state.order_depths.GIFT_BASKET))

\* C27: the returned order list of every product shows the order of the
\* sub-strategies: the takes first, at prices of the book, then the bid
\* quote, then the ask quote.  A market-making or basket product returns
\* one take at most (scratch and stop loss never both emit), the arbitrage
\* product any number.
C27_TakesThenQuotes ==
    pc = "ran" =>
       \A s \in Traded :
          LET os == out.result[s]
              n == Len(os)
              depth == state.order_depths[s]
              u == IF s = "AMETHYSTS" THEN objs.fixed_mm
                   ELSE IF s = "STARFRUIT" THEN objs.lr_mm
                   ELSE IF s = "ORCHIDS" THEN objs.otc_arb
                   ELSE objs.basket_trading.basket
              bid_price == IF s = "ORCHIDS" THEN OTCBidPrice(u)
                           ELSE BidPrice(u.fair_value, u.mm_spread)
              ask_price == IF s = "ORCHIDS" THEN OTCAskPrice(u)
                           ELSE AskPrice(u.fair_value, u.mm_spread)
          IN  /\ n >= 2
              /\ s # "ORCHIDS" => n <= 3
              /\ os[n - 1].price = bid_price
              /\ os[n - 1].quantity >= 0
              /\ os[n].price = ask_price
              /\ os[n].quantity <= 0
              /\ \A i \in 1..(n - 2) :
                    \/ /\ os[i].price \in Keys(depth.buy_orders)
                       /\ os[i].quantity <= 0
                    \/ /\ os[i].price \in Keys(depth.sell_orders)
                       /\ os[i].quantity >= 0

\* a STARFRUIT tick that returned a stop-loss sell and then the two quotes
C27_Witness ==
    /\ pc = "ran"
    /\ focus = "STARFRUIT"
    /\ state.position.STARFRUIT > config.STRATEGY.STARFRUIT.SL_INVENTORY
    /\ Len(out.result.STARFRUIT) = 3
    /\ out.result.STARFRUIT[1].quantity < 0
    /\ out.result.STARFRUIT[1].price # out.result.STARFRUIT[2].price
    /\ out.result.STARFRUIT[3].quantity < 0

C29_FifoUpdate ==
    [][(pc = "store" /\ pc' = "stored") =>
          LET n == Len(data)
              all == Append(data, objs.value)
              kept == Min2(n + 1, objs.max_size)
          IN  /\ data' = SubSeq(all, Len(all) - kept + 1, Len(all))
              /\ n = objs.max_size => data' = Append(Tail(data), objs.value)
              /\ n < objs.max_size => data' = all
      ]_vars

\* a window of three values stored into with max_size 3: the oldest value
\* is gone, the other two kept their order and the new value is last
C29_Witness ==
    /\ pc = "stored"
    /\ objs.max_size = 3
    /\ data = <<Num(200), Num(300), objs.value>>

\* the captured maps and the features derived from them
BookOf(self) ==
    [f \in {"bids", "asks", "best_bid", "best_ask", "worst_bid",
            "worst_ask", "bid_volume", "ask_volume", "bid_vwap", "ask_vwap",
            "mid_vwap"} |-> self[f]]

\* C30: no sub-strategy step changes the captured bid and ask maps or the
\* features derived from them, and none changes the host's order-depth
\* maps: after every step the maps, their level order and the features are
\* those of before the step, the captured maps are still the host's, and
\* the host's snapshot is as it was.
C30_BookIsReadOnly ==
    [][(pc' # pc) =>
          /\ BookOf(Unit') = BookOf(Unit)
          /\ state' = state
          /\ Unit'.bids = state'.order_depths[focus].buy_orders
          /\ Unit'.asks = state'.order_depths[focus].sell_orders
          /\ focus = "GIFT_BASKET" =>
                /\ objs'.basket_trading.c_mid_vwap
                      = objs.basket_trading.c_mid_vwap
                /\ objs'.basket_trading.basket_nav
                      = objs.basket_trading.basket_nav
      ]_vars

\* the last step of a tick that took from the book: the captured maps are
\* the host's, level by level, and the best prices are those of the maps
C30_Witness ==
    /\ pc \in {"market_make", "exit"}
    /\ Len(Unit.orders) >= 3
    /\ Unit.orders[1].quantity # 0
    /\ Unit.bids = state.order_depths[focus].buy_orders
    /\ Unit.asks = state.order_depths[focus].sell_orders
    /\ Len(Unit.bids) >= 2
    /\ Unit.best_bid = MaxOf(Keys(state.order_depths[focus].buy_orders))
    /\ Unit.best_ask = MinOf(Keys(state.order_depths[focus].sell_orders))

====
